---- MODULE Spec2Model ----
(***************************************************************************)
(* ITU-R P.676 gaseous attenuation (itur/models/itu676.py): the version    *)
(* facade __ITU676, the version classes _ITU676_9/_10/_11, the module-     *)
(* level __model and the public functions built on it.                     *)
(*                                                                         *)
(* Numeric results are kept as terms: a tuple whose head names the formula *)
(* and whose tail holds the operands in the role the code gives them, so   *)
(* that "which formula, on which arguments, from which dataset" is what a  *)
(* result records.  A Python call is modelled with its argument binding:   *)
(* a positional-argument list that does not fit the callee's parameters    *)
(* is a TypeError, a missing attribute an AttributeError, an unbound       *)
(* global name a NameError.                                                *)
(***************************************************************************)
EXTENDS Integers, Sequences, FiniteSets, TLC

VARIABLES model, cache, call, out

vars == <<model, cache, call, out>>

----------------------------------------------------------------------------
(* Bounds and input sets *)

\* change_version is tried with every integer -1..MaxVersionInput
MaxVersionInput == 12

VersionInputs == (0 - 1)..MaxVersionInput
FreqSet == {10, 60, 351}
ElArrays == {<<4>>, <<5>>, <<90>>, <<95>>, <<45, 5>>, <<45, 100>>}
PathEls == {<<45, 5>>, <<90>>}
ElScalars == {<<4>>, <<45>>}
ElEdges == {<<0 - 10>>, <<5>>, <<90>>, <<95>>}
RhoSet == {7}
PSet == {1013}
TSet == {288}
RSet == {2}
HPairs == {<<0, 0>>, <<10, 10>>, <<11, 0>>, <<0, 11>>}
SlantExactRhoP == {<<7, 1013>>, <<9, 900>>}
ModeSet == {"approx", "exact"}
ZenitFreqSet == {30}
None == -1
VtSet == {None, 8}

----------------------------------------------------------------------------
(* Outcome of a call: the exception raised ("" for none), the value         *)
(* returned, the warnings emitted and the dataset files read on the way.   *)

Ok(v) == [err |-> "", val |-> v, warn |-> {}, data |-> {}]

Raise(e) == [err |-> e, val |-> <<>>, warn |-> {}, data |-> {}]

\* r2 evaluated after r1: what r1 emitted and read stays emitted and read
After(r1, r2) == [r2 EXCEPT !.warn = r1.warn \cup @, !.data = r1.data \cup @]

\* x = <r>; <F(x)>: an exception in r leaves F unevaluated
Bind(r, F(_)) == IF r.err # "" THEN r ELSE After(r, F(r.val))

\* warnings.warn(w) for each w of ws
Warn(ws) == [err |-> "", val |-> <<>>, warn |-> ws, data |-> {}]

NameError == "NameError"
AttributeError == "AttributeError"
TypeError == "TypeError"
VersionError == "ValueError: Version is not implemented for the ITU-R P.676 model"
AltitudeError == "ValueError: altitude above 10 km"
FrequencyWarning == "RuntimeWarning: frequencies below 350GHz"
ElevationWarning == "RuntimeWarning: elevation angles between 5 and 90 degrees"

\* the classes the module defines; _ITU676_1 .. _ITU676_8 are named in
\* __ITU676.__init__ and defined nowhere
DefinedClasses == {"_ITU676_11", "_ITU676_10", "_ITU676_9"}

ClassName(version) == CASE version = 11 -> "_ITU676_11"
                        [] version = 10 -> "_ITU676_10"
                        [] version = 9 -> "_ITU676_9"
                        [] version = 8 -> "_ITU676_8"
                        [] version = 7 -> "_ITU676_7"
                        [] version = 6 -> "_ITU676_6"
                        [] version = 5 -> "_ITU676_5"
                        [] version = 4 -> "_ITU676_4"
                        [] version = 3 -> "_ITU676_3"
                        [] version = 2 -> "_ITU676_2"
                        [] version = 1 -> "_ITU676_1"
                        [] OTHER -> ""

\* self.__version__ as each class's __init__ sets it
ClassVersion(cls) == CASE cls = "_ITU676_11" -> 11
                       [] cls = "_ITU676_10" -> 10
                       [] cls = "_ITU676_9" -> 9

----------------------------------------------------------------------------
(* _ITU676_10: the classmethods.  self is the class the method is bound to. *)

V10_gammaw_approx(self, args) ==
    IF Len(args) # 4 THEN Raise(TypeError)
    ELSE Ok(<<"gammaw", args[1], args[2], args[3], args[4]>>)

\* the six frequency bands of gamma0_approx
Band(f) == CASE f <= 54 -> "f<=54"
             [] 54 < f /\ f <= 60 -> "54-60"
             [] 60 < f /\ f <= 62 -> "60-62"
             [] 62 < f /\ f <= 66 -> "62-66"
             [] 66 < f /\ f <= 120 -> "66-120"
             [] OTHER -> "f>120"

\* Floating-point values are held in millionths (Unit is 1.0) and rounded
\* down; a power or an exponential is taken where its value is known exactly
\* (base 0 or 1, argument 0), which is where the anchors and band edges lie
\* at P = 1013 hPa, T = 288 K.
Unit == 1000 * 1000

\* x * n / d
Times(x, n, d) == (x \div d) * n + ((x % d) * n) \div d

\* x * y, both in millionths
Mul(x, y) ==
    CASE y = Unit -> x
      [] x = Unit -> y
      [] x = 0 \/ y = 0 -> 0
      [] OTHER -> Times(x, y \div 1000, 1000)

\* the digits of r / y after the point, k of them
RECURSIVE LongDiv(_, _, _)
LongDiv(r, y, k) ==
    IF k = 0 THEN 0
    ELSE ((r * 10) \div y) * (10 ^ (k - 1)) + LongDiv((r * 10) % y, y, k - 1)

\* x / y in millionths, x and y in one scale
Quot(x, y) == (x \div y) * Unit + LongDiv(x % y, y, 6)

\* np.power(x, e), e in ten-thousandths
Pow(x, e) == CASE x = Unit -> Unit
               [] x = 0 /\ e > 0 -> 0

\* np.exp(x)
Exp(x) == CASE x = 0 -> Unit

\* a value in millionths as hundredths, as ten-thousandths
Centi(x) == x \div 10000

TenThousandths(x) == x \div 100

\* phi(rp, rt, a, b, c, d), the exponents a..d in ten-thousandths
phi(rp, rt, a, b, c, d) ==
    Mul(Mul(Pow(rp, a), Pow(rt, b)),
        Exp(c * ((Unit - rp) \div 10000) + d * ((Unit - rt) \div 10000)))

\* rp = P / 1013.0 and rt = 288.0 / T
Gamma0_rp(P) == Quot(P, 1013)

Gamma0_rt(T) == Quot(288, T)

xi1(rp, rt) == phi(rp, rt, 717, 0 - 18132, 156, 0 - 16515)

xi2(rp, rt) == phi(rp, rt, 5146, 0 - 46368, 0 - 1921, 0 - 57416)

xi3(rp, rt) == phi(rp, rt, 3414, 0 - 65851, 2130, 0 - 85854)

xi4(rp, rt) == phi(rp, rt, 0 - 112, 92, 0 - 1033, 0 - 9)

xi5(rp, rt) == phi(rp, rt, 2705, 0 - 27192, 0 - 3016, 0 - 41033)

xi6(rp, rt) == phi(rp, rt, 2445, 0 - 59191, 422, 0 - 80719)

xi7(rp, rt) == phi(rp, rt, 0 - 1833, 65589, 0 - 2402, 61310)

gamma54(rp, rt) == Times(phi(rp, rt, 18286, 0 - 19487, 4051, 0 - 28509), 2192, 1000)

gamma58(rp, rt) == Times(phi(rp, rt, 10045, 35610, 1588, 12834), 1259, 100)

gamma60(rp, rt) == Times(phi(rp, rt, 9003, 41335, 427, 16088), 1500, 100)

gamma62(rp, rt) == Times(phi(rp, rt, 9886, 34176, 1827, 13429), 1428, 100)

gamma64(rp, rt) == Times(phi(rp, rt, 14320, 6258, 3177, 0 - 5914), 6819, 1000)

gamma66(rp, rt) == Times(phi(rp, rt, 20717, 0 - 41404, 4910, 0 - 48718), 1908, 1000)

\* np.exp(np.log(g1) * n1 / d1 + np.log(g2) * n2 / d2 + np.log(g3) * n3 / d3):
\* g1 ^ (n1/d1) * g2 ^ (n2/d2) * g3 ^ (n3/d3), taken where the exponents are
\* 1, 0, 0 in some order
ExpLog(g1, n1, d1, g2, n2, d2, g3, n3, d3) ==
    CASE n1 = d1 /\ n2 = 0 /\ n3 = 0 -> g1
      [] n1 = 0 /\ n2 = d2 /\ n3 = 0 -> g2
      [] n1 = 0 /\ n2 = 0 /\ n3 = d3 -> g3

\* the branch f <= 54
Gamma0_to_54(f, rp, rt) ==
    Times(Mul(Quot(Centi(Times(Pow(rt, 28000), 72, 10)),
                   f * f * 100
                     + Centi(Times(Mul(Pow(rp, 20000), Pow(rt, 16000)), 34, 100)))
              + Quot(Times(xi3(rp, rt), 62, 100),
                     Pow((54 - f) * Unit, Times(xi1(rp, rt), 116, 10000))
                       + Times(xi2(rp, rt), 83, 100)),
              Pow(rp, 20000)),
          f * f, 1000)

\* the branch 54 < f <= 60
Gamma0_54_60(f, rp, rt) ==
    ExpLog(gamma54(rp, rt), (f - 58) * (f - 60), 24,
           gamma58(rp, rt), 0 - (f - 54) * (f - 60), 8,
           gamma60(rp, rt), (f - 54) * (f - 58), 12)

\* the branch 60 < f <= 62 with the slope taken over the width of the band 62-66
Gamma0_60_62_slope(f, rp, rt) ==
    gamma60(rp, rt) + ((gamma62(rp, rt) - gamma60(rp, rt)) * (f - 60)) \div 4

\* the branch 60 < f <= 62
Gamma0_60_62(f, rp, rt) ==
    gamma60(rp, rt) + ((gamma62(rp, rt) - gamma60(rp, rt)) * (f - 60)) \div 2

\* the branch 62 < f <= 66
Gamma0_62_66(f, rp, rt) ==
    ExpLog(gamma62(rp, rt), (f - 64) * (f - 66), 8,
           gamma64(rp, rt), 0 - (f - 62) * (f - 66), 4,
           gamma66(rp, rt), (f - 62) * (f - 64), 8)

\* the branch 66 < f <= 120
Gamma0_66_120(f, rp, rt) ==
    Times(Mul(Times(Pow(rt, 35000), 302, Unit)
              + Quot(TenThousandths(Times(Pow(rt, 38000), 283, 1000)),
                     (100 * f - 11875) * (100 * f - 11875)
                       + TenThousandths(Times(Mul(Pow(rp, 20000), Pow(rt, 16000)),
                                              291, 100)))
              + Quot(Mul(Times(xi6(rp, rt), 502, 1000),
                         Unit - Mul(Times(xi7(rp, rt), 163, 10000), (f - 66) * Unit)),
                     Pow((f - 66) * Unit, Times(xi4(rp, rt), 14346, 10000))
                       + Times(xi5(rp, rt), 115, 100)),
              Pow(rp, 20000)),
          f * f, 1000)

\* the body of the branch of one band, evaluated at f
Gamma0Branch(band, f, P, T) ==
    CASE band = "f<=54" -> Gamma0_to_54(f, Gamma0_rp(P), Gamma0_rt(T))
      [] band = "54-60" -> Gamma0_54_60(f, Gamma0_rp(P), Gamma0_rt(T))
      [] band = "60-62" -> Gamma0_60_62(f, Gamma0_rp(P), Gamma0_rt(T))
      [] band = "62-66" -> Gamma0_62_66(f, Gamma0_rp(P), Gamma0_rt(T))
      [] band = "66-120" -> Gamma0_66_120(f, Gamma0_rp(P), Gamma0_rt(T))

\* the inputs on which the arithmetic above gives the branch's value
Evaluable(f, P, T) == P = 1013 /\ T = 288 /\ f \in {54, 58, 60, 61, 62, 64, 66}

\* the value in millionths of dB/km, <<>> where it is left as a term
Gamma0Value(f, P, T) ==
    IF Evaluable(f, P, T) THEN <<Gamma0Branch(Band(f), f, P, T)>> ELSE <<>>

V10_gamma0_approx(self, args) ==
    IF Len(args) # 3 THEN Raise(TypeError)
    ELSE Ok(<<"gamma0", Band(args[1]), args[1], args[2], args[3],
              Gamma0Value(args[1], args[2], args[3])>>)

V10Datasets == {"676//v10_lines_oxygen.txt", "676//v10_lines_water_vapour.txt"}

V10_gaseous_attenuation_exact(self, args) ==
    IF Len(args) # 4 THEN Raise(TypeError)
    ELSE [Ok(<<"gamma_exact", "v10", args[1], args[2], args[3], args[4]>>)
            EXCEPT !.data = V10Datasets]

V10_slant_inclined_path_coefficients(self, args) ==
    IF Len(args) # 2 THEN Raise(TypeError)
    ELSE Ok(<<"coefficients",
              <<"h0", args[1], args[2], args[1] < 70>>,
              <<"hw", args[1], args[2]>>>>)

----------------------------------------------------------------------------
(* _ITU676_9: instance methods taking (self, *args) that pass args on to    *)
(* the _ITU676_10 classmethod, which is bound to the class _ITU676_10.     *)

V9_gammaw_approx(self, args) == V10_gammaw_approx("_ITU676_10", args)

V9_gamma0_approx(self, args) == V10_gamma0_approx("_ITU676_10", args)

V9_slant_inclined_path_coefficients(self, args) ==
    V10_slant_inclined_path_coefficients("_ITU676_10", args)

V9Datasets == {"676//v9_lines_oxygen.txt", "676//v9_lines_water_vapour.txt"}

\* the one method _ITU676_9 writes out itself, on the v9 line datasets
V9_gaseous_attenuation_exact(self, args) ==
    IF Len(args) # 4 THEN Raise(TypeError)
    ELSE [Ok(<<"gamma_exact", "v9", args[1], args[2], args[3], args[4]>>)
            EXCEPT !.data = V9Datasets]

\* attribute lookup cls.name(args) for the formulas the path methods call
\* on self
ClassFormula(cls, name, args) ==
    CASE cls = "_ITU676_10" /\ name = "gammaw_approx" ->
            V10_gammaw_approx(cls, args)
      [] cls = "_ITU676_10" /\ name = "gamma0_approx" ->
            V10_gamma0_approx(cls, args)
      [] cls = "_ITU676_10" /\ name = "gaseous_attenuation_exact" ->
            V10_gaseous_attenuation_exact(cls, args)
      [] cls = "_ITU676_10" /\ name = "slant_inclined_path_coefficients" ->
            V10_slant_inclined_path_coefficients(cls, args)
      [] cls = "_ITU676_9" /\ name = "gammaw_approx" ->
            V9_gammaw_approx(cls, args)
      [] cls = "_ITU676_9" /\ name = "gamma0_approx" ->
            V9_gamma0_approx(cls, args)
      [] cls = "_ITU676_9" /\ name = "gaseous_attenuation_exact" ->
            V9_gaseous_attenuation_exact(cls, args)
      [] cls = "_ITU676_9" /\ name = "slant_inclined_path_coefficients" ->
            V9_slant_inclined_path_coefficients(cls, args)
      [] OTHER -> Raise(AttributeError)

----------------------------------------------------------------------------
(* gaseous_attenuation_approximation *)

\* (5 > el).any() or (np.mod(el, 90) < 5).any(), el an array
ElevationCheck(el) ==
    \/ \E i \in DOMAIN el : 5 > el[i]
    \/ \E i \in DOMAIN el : (el[i] % 90) < 5

ApproximationWarnings(f, el) ==
    (IF f > 350 THEN {FrequencyWarning} ELSE {})
    \cup (IF ElevationCheck(el) THEN {ElevationWarning} ELSE {})

V10_gaseous_attenuation_approximation(self, args) ==
    IF Len(args) # 5 THEN Raise(TypeError)
    ELSE LET f == args[1]
             el == args[2]
             rho == args[3]
             P == args[4]
             T == args[5]
         IN Bind(Warn(ApproximationWarnings(f, el)), LAMBDA none :
            Bind(ClassFormula(self, "gamma0_approx", <<f, P, T>>), LAMBDA gamma0 :
            Bind(ClassFormula(self, "gammaw_approx", <<f, P, rho, T>>), LAMBDA gammaw :
            Ok(<<"pair", gamma0, gammaw>>))))

V9_gaseous_attenuation_approximation(self, args) ==
    V10_gaseous_attenuation_approximation("_ITU676_10", args)

ClassApproximation(cls, args) ==
    CASE cls = "_ITU676_10" -> V10_gaseous_attenuation_approximation(cls, args)
      [] cls = "_ITU676_9" -> V9_gaseous_attenuation_approximation(cls, args)
      [] OTHER -> Raise(AttributeError)

----------------------------------------------------------------------------
(* Path methods of _ITU676_10 *)

V10_gaseous_attenuation_terrestrial_path(self, args) ==
    IF Len(args) \notin {6, 7} THEN Raise(TypeError)
    ELSE LET r == args[1]
             f == args[2]
             el == args[3]
             rho == args[4]
             P == args[5]
             T == args[6]
             mode == IF Len(args) = 7 THEN args[7] ELSE "approx"
         IN IF mode = "approx"
            THEN Bind(ClassApproximation(self, <<f, el, rho, P, T>>), LAMBDA g :
                 Ok(<<"mul", <<"add", g[2], g[3]>>, r>>))
            ELSE Bind(ClassFormula(self, "gaseous_attenuation_exact",
                                   <<f, el, rho, P, T>>), LAMBDA gamma :
                 Ok(<<"mul", gamma, r>>))

\* np.arange(1, 923): the layers of the exact slant-path integration
NumLayers == 922

\* the integration run on the water-vapour density the caller gave
SlantRho_caller(rho) == rho

\* rho = 7.5, whatever rho the caller gave
SlantRho(rho) == "7.5"

\* n_ratio[i] = n_n[i+1] / n_n[i], the padded last one n_n[N] / n_n[N], as
\* the pair of indices (np.pad(n_n[1:], (0, 1), mode='edge') / n_n)
n_ratio(i) == <<IF i < NumLayers THEN i + 1 ELSE NumLayers, i>>

\* one pass of the loop that leaves the ray angle b as it was
SlantLayer_keep_angle(self, f, rho, i, b) ==
    Bind(ClassFormula(self, "gaseous_attenuation_exact",
             <<f, <<"press_n", i>>, SlantRho(rho), <<"T_n", i>>>>), LAMBDA gamma :
    Ok([Agas |-> <<[delta |-> <<"0.0001*exp(k/100)", i - 1>>,
                    r |-> <<"6371+h_n", i>>, b |-> b, gamma |-> gamma]>>,
        b |-> b]))

\* one pass of the for loop, layer i (T_n[i], press_n[i], r_n[i], delta_h[i],
\* n_ratio[i]), entered with ray angle b: Agas += a * gamma, a from r, delta
\* and b, gamma from self.gaseous_attenuation_exact(f, press, rho, t); then
\* b = arcsin(n_r * sin(alpha)), written <<"b", i, n_ratio[i]>>.  Agas is kept
\* as the sequence of the products added
SlantLayer(self, f, rho, i, b) ==
    Bind(ClassFormula(self, "gaseous_attenuation_exact",
             <<f, <<"press_n", i>>, SlantRho(rho), <<"T_n", i>>>>), LAMBDA gamma :
    Ok([Agas |-> <<[delta |-> <<"0.0001*exp(k/100)", i - 1>>,
                    r |-> <<"6371+h_n", i>>, b |-> b, gamma |-> gamma]>>,
        b |-> <<"b", i, n_ratio(i)>>]))

\* the for loop over layers lo..hi in order, entered with ray angle b: the
\* passes lo..mid, then, unless one of them raised, the passes mid+1..hi
RECURSIVE SlantLayers(_, _, _, _, _, _)
SlantLayers(self, f, rho, lo, hi, b) ==
    IF lo = hi THEN SlantLayer(self, f, rho, lo, b)
    ELSE LET mid == (lo + hi) \div 2
         IN Bind(SlantLayers(self, f, rho, lo, mid, b), LAMBDA A :
            Bind(SlantLayers(self, f, rho, mid + 1, hi, A.b), LAMBDA B :
            Ok([Agas |-> A.Agas \o B.Agas, b |-> B.b])))

V10_gaseous_attenuation_slant_path(self, args) ==
    IF Len(args) \notin {5, 6} THEN Raise(TypeError)
    ELSE LET f == args[1]
             el == args[2]
             rho == args[3]
             P == args[4]
             T == args[5]
             mode == IF Len(args) = 6 THEN args[6] ELSE "approx"
         IN IF mode = "approx"
            THEN Bind(ClassApproximation(self, <<f, el, rho, P, T>>), LAMBDA g :
                 Bind(ClassFormula(self, "slant_inclined_path_coefficients",
                                   <<f, P>>), LAMBDA h :
                 Ok(<<"div", <<"add", <<"mul", g[2], h[2]>>, <<"mul", g[3], h[3]>>>>,
                      <<"sin", el>>>>)))
            ELSE Bind(SlantLayers(self, f, rho, 1, NumLayers, <<"pi/2-el", el>>),
                      LAMBDA loop :
                 Ok(<<"Agas", loop.Agas,
                      <<"n_n", <<"e", SlantRho(rho), T>>, T>>>>))

V10_gaseous_attenuation_inclined_path(self, args) ==
    IF Len(args) \notin {7, 8} THEN Raise(TypeError)
    ELSE LET f == args[1]
             el == args[2]
             rho == args[3]
             P == args[4]
             T == args[5]
             h1 == args[6]
             h2 == args[7]
             mode == IF Len(args) = 8 THEN args[8] ELSE "approx"
         IN IF h1 > 10 \/ h2 > 10 THEN Raise(AltitudeError)
            ELSE Bind(IF mode = "approx"
                      THEN ClassApproximation(self,
                               <<f, el, <<"rho*exp(h1/2)", rho, h1>>, P, T>>)
                      ELSE ClassFormula(self, "gaseous_attenuation_exact",
                               <<f, el, rho, P, T>>), LAMBDA g :
                 Bind(ClassFormula(self, "slant_inclined_path_coefficients",
                                   <<f, P>>), LAMBDA h :
                 Ok(IF 5 < el[1] /\ el[1] < 90
                    THEN <<"exponential", g[2], g[3], h[2], h[3], h1, h2, el>>
                    ELSE <<"eq_33", g[2], g[3], h[2], h[3], h1, h2,
                           el, <<0 - el[1]>>>>)))

V10_zenit_water_vapour_attenuation(self, args) ==
    IF Len(args) \notin {4, 5, 6} THEN Raise(TypeError)
    ELSE LET lat == args[1]
             lon == args[2]
             p == args[3]
             f == args[4]
             V_t == IF Len(args) >= 5 THEN args[5] ELSE None
             alt == IF Len(args) >= 6 THEN args[6] ELSE None
             Vt == IF V_t = None
                   THEN <<"total_water_vapour_content", lat, lon, p, alt>>
                   ELSE <<"V_t", V_t>>
         IN Bind(ClassFormula(self, "gammaw_approx",
                     <<f, 780, <<"rho_ref", Vt>>, <<"t_ref+273", Vt>>>>), LAMBDA num :
            Bind(ClassFormula(self, "gammaw_approx",
                     <<"f_ref", 780, <<"rho_ref", Vt>>, <<"t_ref+273", Vt>>>>), LAMBDA den :
            Ok(<<"0.0173*V_t*num/den", Vt, num, den>>)))

----------------------------------------------------------------------------
(* Path methods of _ITU676_9, and the attribute lookup on a version        *)
(* instance.  _ITU676_11 defines __init__ only.                            *)

V9_gaseous_attenuation_terrestrial_path(self, args) ==
    V10_gaseous_attenuation_terrestrial_path("_ITU676_10", args)

V9_gaseous_attenuation_slant_path(self, args) ==
    V10_gaseous_attenuation_slant_path("_ITU676_10", args)

V9_gaseous_attenuation_inclined_path(self, args) ==
    V10_gaseous_attenuation_inclined_path("_ITU676_10", args)

V9_zenit_water_vapour_attenuation(self, args) ==
    V10_zenit_water_vapour_attenuation("_ITU676_10", args)

FormulaNames == {"gammaw_approx", "gamma0_approx", "gaseous_attenuation_exact",
                 "slant_inclined_path_coefficients"}

\* instance.name(args), instance an object of class cls
InstanceCall(cls, name, args) ==
    CASE cls \in {"_ITU676_10", "_ITU676_9"} /\ name \in FormulaNames ->
            ClassFormula(cls, name, args)
      [] cls \in {"_ITU676_10", "_ITU676_9"}
            /\ name = "gaseous_attenuation_approximation" ->
            ClassApproximation(cls, args)
      [] cls = "_ITU676_10" /\ name = "gaseous_attenuation_terrestrial_path" ->
            V10_gaseous_attenuation_terrestrial_path(cls, args)
      [] cls = "_ITU676_10" /\ name = "gaseous_attenuation_slant_path" ->
            V10_gaseous_attenuation_slant_path(cls, args)
      [] cls = "_ITU676_10" /\ name = "gaseous_attenuation_inclined_path" ->
            V10_gaseous_attenuation_inclined_path(cls, args)
      [] cls = "_ITU676_10" /\ name = "zenit_water_vapour_attenuation" ->
            V10_zenit_water_vapour_attenuation(cls, args)
      [] cls = "_ITU676_9" /\ name = "gaseous_attenuation_terrestrial_path" ->
            V9_gaseous_attenuation_terrestrial_path(cls, args)
      [] cls = "_ITU676_9" /\ name = "gaseous_attenuation_slant_path" ->
            V9_gaseous_attenuation_slant_path(cls, args)
      [] cls = "_ITU676_9" /\ name = "gaseous_attenuation_inclined_path" ->
            V9_gaseous_attenuation_inclined_path(cls, args)
      [] cls = "_ITU676_9" /\ name = "zenit_water_vapour_attenuation" ->
            V9_zenit_water_vapour_attenuation(cls, args)
      [] OTHER -> Raise(AttributeError)

----------------------------------------------------------------------------
(* The facade __ITU676 *)

\* __init__ with the final else falling back to the default version
ITU676_init_default(version) ==
    IF ClassName(version) = "" THEN Ok(ClassName(10))
    ELSE IF ClassName(version) \notin DefinedClasses THEN Raise(NameError)
    ELSE Ok(ClassName(version))

\* __ITU676.__init__(version): the class of self.instance, or the error
ITU676_init(version) ==
    IF ClassName(version) = "" THEN Raise(VersionError)
    ELSE IF ClassName(version) \notin DefinedClasses THEN Raise(NameError)
    ELSE Ok(ClassName(version))

\* the property __version__
ITU676_version(instance) == ClassVersion(instance)

\* the methods class __ITU676 defines, each handing its arguments to the
\* method of the same name of self.instance
FacadeMethods == {"gaseous_attenuation_terrestrial_path",
                  "gaseous_attenuation_slant_path",
                  "zenit_water_vapour_attenuation", "gammaw_approx", "gamma0_approx"}

\* how many positional arguments each takes (self apart)
FacadeArity(name) ==
    CASE name = "gaseous_attenuation_terrestrial_path" -> {7}
      [] name = "gaseous_attenuation_slant_path" -> {6}
      [] name = "zenit_water_vapour_attenuation" -> {4, 5, 6}
      [] name = "gammaw_approx" -> {4}
      [] name = "gamma0_approx" -> {3}

\* zenit_water_vapour_attenuation passes V_t and alt on, None when not given
FacadeArgs(name, args) ==
    IF name = "zenit_water_vapour_attenuation"
    THEN <<args[1], args[2], args[3], args[4],
           IF Len(args) >= 5 THEN args[5] ELSE None,
           IF Len(args) >= 6 THEN args[6] ELSE None>>
    ELSE args

\* __model.name(args)
FacadeCall(instance, name, args) ==
    IF name \notin FacadeMethods THEN Raise(AttributeError)
    ELSE IF Len(args) \notin FacadeArity(name) THEN Raise(TypeError)
    ELSE InstanceCall(instance, name, FacadeArgs(name, args))

----------------------------------------------------------------------------
(* The public functions; m is the instance class __model holds.            *)

\* utils.prepare_quantity on a plain number: the number
prepare_quantity(value, units) == value

\* prepare_output_array(val, type_output) * unit
Quantity(res, unit) == Bind(res, LAMBDA val : Ok(<<"Quantity", val, unit>>))

get_version(m) == Ok(<<"version", ITU676_version(m)>>)

gaseous_attenuation_terrestrial_path(m, r, f, el, rho, P, T, mode) ==
    LET f1 == prepare_quantity(f, "km")
        f2 == prepare_quantity(f1, "GHz")
    IN Quantity(FacadeCall(m, "gaseous_attenuation_terrestrial_path",
                    <<f2, prepare_quantity(el, "deg"), prepare_quantity(rho, "g/m3"),
                      prepare_quantity(P, "hPa"), prepare_quantity(T, "K"), mode>>),
                "dB")

gaseous_attenuation_slant_path(m, f, el, rho, P, T, mode) ==
    Quantity(FacadeCall(m, "gaseous_attenuation_slant_path",
                 <<prepare_quantity(f, "GHz"), prepare_quantity(el, "deg"),
                   prepare_quantity(rho, "g/m3"), prepare_quantity(P, "hPa"),
                   prepare_quantity(T, "K"), mode>>),
             "dB")

gaseous_attenuation_inclined_path(m, f, el, rho, P, T, h1, h2, mode) ==
    Quantity(FacadeCall(m, "gaseous_attenuation_inclined_path",
                 <<prepare_quantity(f, "GHz"), prepare_quantity(el, "deg"),
                   prepare_quantity(rho, "g/m3"), prepare_quantity(P, "hPa"),
                   prepare_quantity(T, "K"), prepare_quantity(h1, "km"),
                   prepare_quantity(h2, "km"), mode>>),
             "dB")

\* the body of zenit_water_vapour_attenuation, under the memory.cache decorator
zenit_water_vapour_attenuation(m, lat, lon, p, f, V_t, alt) ==
    Quantity(FacadeCall(m, "zenit_water_vapour_attenuation",
                 <<lat, lon % 360, p, prepare_quantity(f, "GHz"),
                   prepare_quantity(V_t, "kg/m2"), alt>>),
             "dB")

gammaw_approx(m, f, P, rho, T) ==
    Quantity(FacadeCall(m, "gammaw_approx",
                 <<prepare_quantity(f, "GHz"), prepare_quantity(P, "hPa"),
                   prepare_quantity(rho, "g/m3"), prepare_quantity(T, "K")>>),
             "dB/km")

gamma0_approx(m, f, P, T) ==
    Quantity(FacadeCall(m, "gamma0_approx",
                 <<prepare_quantity(f, "GHz"), prepare_quantity(P, "hPa"),
                   prepare_quantity(T, "K")>>),
             "dB/km")

\* memory.cache: the stored return value for these arguments, if there is one
ZenitKeys == {<<0, 0, 1, f, V_t, None>> : f \in ZenitFreqSet, V_t \in VtSet}

NoEntry == <<>>

memory_cache(c, key, computed) ==
    IF c[key] # NoEntry
    THEN [res |-> Ok(c[key]), store |-> c]
    ELSE [res |-> computed,
          store |-> IF computed.err = "" THEN [c EXCEPT ![key] = computed.val] ELSE c]

----------------------------------------------------------------------------
(* The module as a state machine.                                           *)
(*   model : the class of __model.instance                                 *)
(*   cache : what memory.cache holds for zenit_water_vapour_attenuation    *)
(*   call  : the last call made, and the class __model held when it began  *)
(*   out   : its outcome                                                   *)

Called(api, fn, args) == [api |-> api, fn |-> fn, args |-> args, ver |-> model]

\* __model = __ITU676()
Init ==
    /\ model = ITU676_init(10).val
    /\ cache = [k \in ZenitKeys |-> NoEntry]
    /\ call = [api |-> "load", fn |-> "__init__", args |-> <<10>>, ver |-> ""]
    /\ out = Ok(<<>>)

\* change_version that unbinds __model before it constructs the new facade
ChangeVersion_unset(new_version) ==
    LET made == ITU676_init(new_version)
    IN /\ model' = IF made.err = "" THEN made.val ELSE ""
       /\ call' = Called("public", "change_version", <<new_version>>)
       /\ out' = IF made.err = "" THEN Ok(<<>>) ELSE made
       /\ UNCHANGED cache

\* change_version that falls back to __ITU676() when the constructor raises
ChangeVersion_reset(new_version) ==
    LET made == ITU676_init(new_version)
    IN /\ model' = IF made.err = "" THEN made.val ELSE ITU676_init(10).val
       /\ call' = Called("public", "change_version", <<new_version>>)
       /\ out' = IF made.err = "" THEN Ok(<<>>) ELSE made
       /\ UNCHANGED cache

\* change_version(new_version): __model is rebound only if the constructor returns
ChangeVersion(new_version) ==
    LET made == ITU676_init(new_version)
    IN /\ model' = IF made.err = "" THEN made.val ELSE model
       /\ call' = Called("public", "change_version", <<new_version>>)
       /\ out' = IF made.err = "" THEN Ok(<<>>) ELSE made
       /\ UNCHANGED cache

GetVersion ==
    /\ call' = Called("public", "get_version", <<>>)
    /\ out' = get_version(model)
    /\ UNCHANGED <<model, cache>>

TerrestrialPath(r, f, el, rho, P, T, mode) ==
    /\ call' = Called("public", "gaseous_attenuation_terrestrial_path",
                      <<r, f, el, rho, P, T, mode>>)
    /\ out' = gaseous_attenuation_terrestrial_path(model, r, f, el, rho, P, T, mode)
    /\ UNCHANGED <<model, cache>>

SlantPath(f, el, rho, P, T, mode) ==
    /\ call' = Called("public", "gaseous_attenuation_slant_path",
                      <<f, el, rho, P, T, mode>>)
    /\ out' = gaseous_attenuation_slant_path(model, f, el, rho, P, T, mode)
    /\ UNCHANGED <<model, cache>>

InclinedPath(f, el, rho, P, T, h1, h2, mode) ==
    /\ call' = Called("public", "gaseous_attenuation_inclined_path",
                      <<f, el, rho, P, T, h1, h2, mode>>)
    /\ out' = gaseous_attenuation_inclined_path(model, f, el, rho, P, T, h1, h2, mode)
    /\ UNCHANGED <<model, cache>>

ZenitWaterVapour(key) ==
    LET done == memory_cache(cache, key,
                    zenit_water_vapour_attenuation(model, key[1], key[2], key[3],
                                                   key[4], key[5], key[6]))
    IN /\ call' = Called("public", "zenit_water_vapour_attenuation", key)
       /\ out' = done.res
       /\ cache' = done.store
       /\ UNCHANGED model

GammawApprox(f, P, rho, T) ==
    /\ call' = Called("public", "gammaw_approx", <<f, P, rho, T>>)
    /\ out' = gammaw_approx(model, f, P, rho, T)
    /\ UNCHANGED <<model, cache>>

Gamma0Approx(f, P, T) ==
    /\ call' = Called("public", "gamma0_approx", <<f, P, T>>)
    /\ out' = gamma0_approx(model, f, P, T)
    /\ UNCHANGED <<model, cache>>

\* the argument lists the methods are called with, by method name
TerrestrialArgs == {<<r, f, el, rho, P, T, mode>> :
                        r \in RSet, f \in FreqSet, el \in PathEls, rho \in RhoSet,
                        P \in PSet, T \in TSet, mode \in ModeSet}

SlantArgs == {<<f, el, rho, P, T, "approx">> :
                  f \in FreqSet, el \in PathEls, rho \in RhoSet,
                  P \in PSet, T \in TSet}
             \cup {<<f, <<45, 5>>, rhoP[1], rhoP[2], T, "exact">> :
                  f \in {10}, rhoP \in SlantExactRhoP, T \in TSet}

InclinedArgs == {<<f, el, rho, P, T, h[1], h[2], mode>> :
                     f \in {10}, el \in ElScalars, rho \in RhoSet, P \in PSet,
                     T \in TSet, h \in HPairs, mode \in ModeSet}
                \cup {<<f, el, rho, P, T, 0, 0, "approx">> :
                     f \in {10}, el \in ElEdges, rho \in RhoSet, P \in PSet,
                     T \in TSet}

ApproximationArgs == {<<f, el, rho, P, T>> :
                          f \in FreqSet, el \in ElArrays, rho \in RhoSet,
                          P \in PSet, T \in TSet}

GammawArgs == {<<f, P, rho, T>> : f \in FreqSet, P \in PSet, rho \in RhoSet, T \in TSet}

Gamma0Args == {<<f, P, T>> : f \in FreqSet, P \in PSet, T \in TSet}

CoefficientArgs == {<<f, P>> : f \in FreqSet, P \in PSet}

MethodArgs(name) ==
    CASE name = "gaseous_attenuation_terrestrial_path" -> TerrestrialArgs
      [] name = "gaseous_attenuation_slant_path" ->
            {a \in SlantArgs : a[3] \in RhoSet /\ a[4] \in PSet}
      [] name = "gaseous_attenuation_inclined_path" -> InclinedArgs
      [] name = "zenit_water_vapour_attenuation" -> ZenitKeys
      [] name = "gaseous_attenuation_approximation" -> ApproximationArgs
      [] name = "gaseous_attenuation_exact" -> GammawArgs
      [] name = "gammaw_approx" -> GammawArgs
      [] name = "gamma0_approx" -> Gamma0Args
      [] name = "slant_inclined_path_coefficients" -> CoefficientArgs

PathMethods == {"gaseous_attenuation_terrestrial_path",
                "gaseous_attenuation_slant_path",
                "gaseous_attenuation_inclined_path",
                "zenit_water_vapour_attenuation"}

InstanceMethods == FormulaNames \cup {"gaseous_attenuation_approximation"}
                       \cup PathMethods

\* __model.name(*args), a method of the facade called directly
FacadeMethod(name, args) ==
    /\ call' = Called("facade", name, args)
    /\ out' = FacadeCall(model, name, args)
    /\ UNCHANGED <<model, cache>>

\* __model.instance.name(*args), a method of the version implementation
InstanceMethod(name, args) ==
    /\ call' = Called("instance", name, args)
    /\ out' = InstanceCall(model, name, args)
    /\ UNCHANGED <<model, cache>>

Next ==
    \/ \E v \in VersionInputs : ChangeVersion(v)
    \/ GetVersion
    \/ \E a \in TerrestrialArgs :
          TerrestrialPath(a[1], a[2], a[3], a[4], a[5], a[6], a[7])
    \/ \E a \in SlantArgs : SlantPath(a[1], a[2], a[3], a[4], a[5], a[6])
    \/ \E a \in InclinedArgs :
          InclinedPath(a[1], a[2], a[3], a[4], a[5], a[6], a[7], a[8])
    \/ \E key \in ZenitKeys : ZenitWaterVapour(key)
    \/ \E a \in GammawArgs : GammawApprox(a[1], a[2], a[3], a[4])
    \/ \E a \in Gamma0Args : Gamma0Approx(a[1], a[2], a[3])
    \/ \E name \in FacadeMethods : \E a \in MethodArgs(name) : FacadeMethod(name, a)
    \/ \E name \in InstanceMethods : \E a \in MethodArgs(name) : InstanceMethod(name, a)

Spec == Init /\ [][Next]_vars

\* gamma0_approx alone, over the frequencies around its band edges
Gamma0BandFreqs == 48..72 \cup {120, 121}

Gamma0BandArgs == {<<f, P, T>> : f \in Gamma0BandFreqs, P \in PSet, T \in TSet}

NextGamma0 ==
    \/ \E v \in 9..11 : ChangeVersion(v)
    \/ \E a \in Gamma0BandArgs : Gamma0Approx(a[1], a[2], a[3])
    \/ \E a \in Gamma0BandArgs : InstanceMethod("gamma0_approx", a)

SpecGamma0 == Init /\ [][NextGamma0]_vars

----------------------------------------------------------------------------
(* Properties *)

IsCall(api, fn) == call.api = api /\ call.fn = fn

VersionsWithFormulas == {"_ITU676_9", "_ITU676_10"}

\* C1: for every v in 1..11, change_version(v) completes without error and
\* get_version() right after it returns v, whatever was selected before.
C1_RoundTrip ==
    (IsCall("public", "change_version") /\ call.args[1] \in 1..11)
        => /\ out.err = ""
           /\ get_version(model).val = <<"version", call.args[1]>>

\* C2: change_version(v) with v outside 1..11 raises the ValueError
\* 'Version v is not implemented', no other error, and never succeeds.
C2_UnsupportedVersionRejected ==
    (IsCall("public", "change_version") /\ call.args[1] \notin 1..11)
        => out.err = VersionError

C2_Witness ==
    /\ IsCall("public", "change_version")
    /\ call.args[1] = 0
    /\ out.err = VersionError
    /\ call.ver = "_ITU676_9"

\* C3: with any version v in 1..9 selected, every operation v does not
\* override gives the result version 10 gives on the same inputs, and the
\* selection itself does not fail.
C3_Delegation ==
    (IsCall("public", "change_version") /\ call.args[1] \in 1..9)
        => /\ out.err = ""
           /\ model = ClassName(call.args[1])
           /\ \A name \in InstanceMethods \ {"gaseous_attenuation_exact"} :
                \A a \in MethodArgs(name) :
                    InstanceCall(model, name, a) = InstanceCall("_ITU676_10", name, a)

\* C4: under every selectable version the five facade operations reach an
\* operation the active version instance provides: none fails on a missing
\* operation.
C4_FacadeOperationsProvided ==
    (call.api = "facade" /\ call.fn \in FacadeMethods) => out.err # AttributeError

\* what a public computation yields under instance class m, computed afresh
PublicResult(m, fn, a) ==
    CASE fn = "gaseous_attenuation_terrestrial_path" ->
            gaseous_attenuation_terrestrial_path(m, a[1], a[2], a[3], a[4], a[5], a[6], a[7])
      [] fn = "gaseous_attenuation_slant_path" ->
            gaseous_attenuation_slant_path(m, a[1], a[2], a[3], a[4], a[5], a[6])
      [] fn = "gaseous_attenuation_inclined_path" ->
            gaseous_attenuation_inclined_path(m, a[1], a[2], a[3], a[4], a[5], a[6], a[7], a[8])
      [] fn = "zenit_water_vapour_attenuation" ->
            zenit_water_vapour_attenuation(m, a[1], a[2], a[3], a[4], a[5], a[6])
      [] fn = "gammaw_approx" -> gammaw_approx(m, a[1], a[2], a[3], a[4])
      [] fn = "gamma0_approx" -> gamma0_approx(m, a[1], a[2], a[3])

PublicComputations == {"gaseous_attenuation_terrestrial_path",
                       "gaseous_attenuation_slant_path",
                       "gaseous_attenuation_inclined_path",
                       "zenit_water_vapour_attenuation",
                       "gammaw_approx", "gamma0_approx"}

\* C5: the outcome of every public computation is the one the currently
\* selected version produces, also when the same call was made before under
\* another version.
C5_SwitchImmediate ==
    (call.api = "public" /\ call.fn \in PublicComputations)
        => /\ out.err = PublicResult(call.ver, call.fn, call.args).err
           /\ out.val = PublicResult(call.ver, call.fn, call.args).val

\* C6: an exact line summation evaluated while version 9 is selected reads
\* the version-9 datasets, directly or from inside a path operation; under
\* versions 10 and 11 it reads the version-10 datasets.
C6_LineDatasets ==
    out.data # {}
        => out.data = IF call.ver = "_ITU676_9" THEN V9Datasets ELSE V10Datasets

\* C7: the public gaseous_attenuation_inclined_path with h1 > 10 or h2 > 10
\* raises the ValueError about altitudes above 10 km, for every mode,
\* elevation and version; heights of exactly 10 km are not rejected with it.
C7_InclinedHeightRejected ==
    IsCall("public", "gaseous_attenuation_inclined_path")
        => IF call.args[6] > 10 \/ call.args[7] > 10
           THEN out.err = AltitudeError
           ELSE out.err # AltitudeError

\* C8: gaseous_attenuation_approximation warns if and only if f > 350 or some
\* elevation lies outside [5, 90], and returns the specific attenuations in
\* every case.
C8_AdvisoryIff ==
    (IsCall("instance", "gaseous_attenuation_approximation")
            /\ call.ver \in VersionsWithFormulas)
        => /\ out.err = ""
           /\ out.warn # {} <=>
                \/ call.args[1] > 350
                \/ \E i \in DOMAIN call.args[2] :
                      call.args[2][i] < 5 \/ call.args[2][i] > 90

\* C9: the public gaseous_attenuation_terrestrial_path(r, f, el, rho, P, T,
\* 'approx') returns (gamma0_approx(f, P, T) + gammaw_approx(f, P, rho, T)) * r.
C9_TerrestrialApprox ==
    (IsCall("public", "gaseous_attenuation_terrestrial_path")
            /\ call.args[7] = "approx" /\ call.ver \in VersionsWithFormulas)
        => /\ out.err = ""
           /\ out.val =
                <<"Quantity",
                  <<"mul",
                    <<"add",
                      InstanceCall(call.ver, "gamma0_approx",
                          <<call.args[2], call.args[5], call.args[6]>>).val,
                      InstanceCall(call.ver, "gammaw_approx",
                          <<call.args[2], call.args[5], call.args[4], call.args[6]>>).val>>,
                    call.args[1]>>,
                  "dB">>

\* C10: the version implementation's gaseous_attenuation_terrestrial_path(r,
\* f, el, rho, P, T, mode='exact') returns gaseous_attenuation_exact(f, P,
\* rho, T) * r.
C10_TerrestrialExact ==
    (IsCall("instance", "gaseous_attenuation_terrestrial_path")
            /\ call.args[7] = "exact" /\ call.ver \in VersionsWithFormulas)
        => /\ out.err = ""
           /\ out.val =
                <<"mul",
                  InstanceCall(call.ver, "gaseous_attenuation_exact",
                      <<call.args[2], call.args[5], call.args[4], call.args[6]>>).val,
                  call.args[1]>>

\* the edges between the bands of gamma0_approx, and the band above each
BandEdges == {54, 60, 62, 66}

UpperBand(edge) == CASE edge = 54 -> "54-60"
                     [] edge = 60 -> "60-62"
                     [] edge = 62 -> "62-66"
                     [] edge = 66 -> "66-120"

\* |x - y| <= (num / den) * x
Within(x, y, num, den) ==
    (IF x >= y THEN x - y ELSE y - x) * den <= num * x

\* gamma0_approx(f, P, T) was evaluated by a version that has it, f given
Gamma0At(f) ==
    /\ IsCall("instance", "gamma0_approx")
    /\ call.ver \in VersionsWithFormulas
    /\ call.args[1] = f
    /\ Evaluable(call.args[1], call.args[2], call.args[3])

\* the value returned, and the limit from above at the edge f: the value of
\* the upper band's branch there (each branch is continuous in f)
Gamma0Below == out.val[6][1]

Gamma0Above == Gamma0Branch(UpperBand(call.args[1]), call.args[1],
                            call.args[2], call.args[3])

\* the interpolated bands take the anchor values at the anchor
\* frequencies, and the linear band runs from gamma60 to gamma62
Gamma0Anchors ==
    /\ Gamma0At(58) => Gamma0Below = gamma58(Unit, Unit)
    /\ Gamma0At(60) => Gamma0Below = gamma60(Unit, Unit) /\ Gamma0Above = Gamma0Below
    /\ Gamma0At(61) => 2 * Gamma0Below = gamma60(Unit, Unit) + gamma62(Unit, Unit)
    /\ Gamma0At(62) => Gamma0Below = gamma62(Unit, Unit) /\ Gamma0Above = Gamma0Below
    /\ Gamma0At(64) => Gamma0Below = gamma64(Unit, Unit)
    /\ Gamma0At(66) => Gamma0Below = gamma66(Unit, Unit)
    /\ Gamma0At(54) => Gamma0Above = gamma54(Unit, Unit)

\* C12, as stated: at each of 54, 60, 62 and 66 GHz the value at the edge and
\* the value just above it agree within about 1e-3 relative (taken as no more
\* than 2e-3), and the interpolations take the anchor values.
C12_Continuity ==
    /\ Gamma0Anchors
    /\ \A edge \in BandEdges :
          Gamma0At(edge) => Within(Gamma0Below, Gamma0Above, 2, 1000)

\* C12, amended: at P = 1013 hPa, T = 288 K gamma0_approx is continuous at 60
\* and 62 GHz, where the neighbouring bands share the anchors gamma60 and
\* gamma62, and the interpolations take the anchor values; at 54 and 66 GHz
\* the band f <= 54 ends below gamma54 and the band 66-120 starts below
\* gamma66, by more than 2e-3 and less than 5e-3 relative.
C12_ContinuityAmended ==
    /\ Gamma0Anchors
    /\ \A edge \in {54, 66} :
          Gamma0At(edge) => /\ Within(Gamma0Below, Gamma0Above, 5, 1000)
                            /\ ~Within(Gamma0Below, Gamma0Above, 2, 1000)
    /\ Gamma0At(54) => Gamma0Below < Gamma0Above
    /\ Gamma0At(66) => Gamma0Above < Gamma0Below

\* gamma0_approx(54, 1013, 288) under version 9: 2.185410 dB/km
C12_Witness ==
    /\ Gamma0At(54)
    /\ call.ver = "_ITU676_9"
    /\ out.val[6] = <<2185410>>

\* C11: in every reachable state exactly one of the module's versions is
\* current, its number lies in 1..11, and get_version() returns the number of
\* the version that is current when it is called.
C11_SingleCurrentVersion ==
    /\ model \in DefinedClasses
    /\ ITU676_version(model) \in 1..11
    /\ IsCall("public", "get_version")
          => out = Ok(<<"version", ClassVersion(call.ver)>>) /\ call.ver = model

\* a failed change_version(8) made while version 11 is current
C11_Witness ==
    /\ IsCall("public", "change_version")
    /\ call.args[1] = 8
    /\ out.err = NameError
    /\ model = "_ITU676_11"

\* the exact integration was run by a version that has it: the instance's
\* gaseous_attenuation_slant_path with mode 'exact'
SlantExactRun ==
    /\ IsCall("instance", "gaseous_attenuation_slant_path")
    /\ call.args[6] = "exact"
    /\ call.ver \in VersionsWithFormulas

\* C13: the exact slant-path integration returns after exactly 922 passes,
\* layer i = 1..922 in increasing order with thickness 1e-4*exp((i-1)/100);
\* pass i adds once the segment of layer i times the exact specific
\* attenuation at press_n[i] and T_n[i]; the ray angle entering layer i+1 is
\* the one left by layer i with the ratio n(i+1)/n(i), and the ratio of the
\* last layer is n(922)/n(922) = 1.
C13_SlantLayers ==
    SlantExactRun
        => /\ out.err = ""
           /\ Len(out.val[2]) = 922
           /\ \A i \in 1..922 :
                /\ out.val[2][i].delta = <<"0.0001*exp(k/100)", i - 1>>
                /\ out.val[2][i].r = <<"6371+h_n", i>>
                /\ out.val[2][i].gamma[4] = <<"press_n", i>>
                /\ out.val[2][i].gamma[6] = <<"T_n", i>>
                /\ out.val[2][i].b =
                     IF i = 1 THEN <<"pi/2-el", call.args[2]>>
                     ELSE <<"b", i - 1, <<i, i - 1>>>>
           /\ n_ratio(922) = <<922, 922>>

\* the integration run under version 9, all 922 layers added
C13_Witness ==
    /\ SlantExactRun
    /\ call.ver = "_ITU676_9"
    /\ out.err = ""
    /\ Len(out.val[2]) = 922
    /\ out.val[2][922].b = <<"b", 921, <<922, 921>>>>

\* C14: the version instance's gaseous_attenuation_inclined_path, for every
\* mode: with h1 > 10 or h2 > 10 it raises the altitude error before any
\* advisory is emitted; otherwise it returns the exponential height-weighted
\* form when 5 < el < 90 and, for every other elevation, the closed form
\* evaluated with el at station 1 and -el at station 2.
C14_InclinedBranch ==
    (IsCall("instance", "gaseous_attenuation_inclined_path")
            /\ call.ver \in VersionsWithFormulas)
        => IF call.args[6] > 10 \/ call.args[7] > 10
           THEN out.err = AltitudeError /\ out.warn = {}
           ELSE /\ out.err = ""
                /\ IF 5 < call.args[2][1] /\ call.args[2][1] < 90
                   THEN out.val[1] = "exponential"
                   ELSE /\ out.val[1] = "eq_33"
                        /\ out.val[8] = call.args[2]
                        /\ out.val[9] = <<0 - call.args[2][1]>>

\* C15: a change_version(v) that raises, for an unsupported v or because the
\* version instance cannot be constructed, leaves the selected version and
\* what the computations read (the stored results) as they were before it.
C15_FailedSwitchKeepsSelection ==
    [][(call'.api = "public" /\ call'.fn = "change_version" /\ out'.err # "")
          => (model' = model /\ cache' = cache
              /\ get_version(model') = get_version(model))]_vars

\* a rejected change_version(12) made while version 9 is current
C15_Witness ==
    /\ IsCall("public", "change_version")
    /\ call.args[1] = 12
    /\ out.err = VersionError
    /\ call.ver = "_ITU676_9"
    /\ model = "_ITU676_9"

\* the exact slant-path inputs that differ from a in rho and P at most
SameButRhoP(a) ==
    {x \in SlantArgs : /\ x[6] = "exact" /\ x[1] = a[1] /\ x[2] = a[2]
                       /\ x[5] = a[5]}

\* C16: gaseous_attenuation_slant_path in exact mode returns the same
\* attenuation for any two inputs that differ only in rho and P, whether
\* called through the public function or on the version instance.
C16_ExactIgnoresRhoP ==
    /\ (IsCall("public", "gaseous_attenuation_slant_path")
            /\ call.args[6] = "exact" /\ call.ver \in VersionsWithFormulas)
          => /\ out.err = ""
             /\ \A x \in SameButRhoP(call.args) :
                  out.val = PublicResult(call.ver, call.fn, x).val
    /\ SlantExactRun
          => \A x \in SameButRhoP(call.args) :
                out.val = InstanceCall(call.ver, call.fn, x).val

\* the public function called in exact mode with rho = 9, P = 900 under
\* version 10, where another input has rho = 7, P = 1013
C16_Witness ==
    /\ IsCall("public", "gaseous_attenuation_slant_path")
    /\ call.args[6] = "exact"
    /\ call.args[3] = 9 /\ call.args[4] = 900
    /\ call.ver = "_ITU676_10"
    /\ out.err = ""
    /\ Cardinality(SameButRhoP(call.args)) = 2

====
